---- MODULE Spec2Model ----
(***************************************************************************)
(* Model of stress/locust.py: the module-level token list TOKENS, the     *)
(* task set TenantCreateAndDeleteVolumeTask (on_start, create_volume,     *)
(* delete_volume) and the users that run it.                              *)
(*                                                                         *)
(* Python strings are modelled as sequences of string chunks, so that     *)
(* `+` is \o, "" is << >> and str.replace('-', '') is a filter.            *)
(*                                                                         *)
(* The names SequentialTaskSet, between and events, which the file uses   *)
(* without importing them, are taken to be locust's objects of those      *)
(* names.                                                                 *)
(***************************************************************************)
EXTENDS Integers, Sequences, FiniteSets, TLC

\* Number of simulated users the framework starts.
NUsers == 2

\* Largest number of lines of tokens.txt.
MaxTokens == 2

Users == 1..NUsers

\* The lines tokens.txt may hold: two bearer tokens and the empty line.
TokenLines == {<<>>, <<"tokA">>, <<"tokB">>}

RECURSIVE SeqsUpTo(_, _)
SeqsUpTo(S, n) ==
    IF n = 0 THEN {<<>>}
    ELSE LET shorter == SeqsUpTo(S, n - 1)
         IN  shorter \cup {Append(s, x) : s \in shorter, x \in S}

\* The contents tokens.txt may have, as f.read().splitlines() returns them.
TokenFiles == SeqsUpTo(TokenLines, MaxTokens)

\* The values str(uuid.uuid4()) may return: one for each user to draw.
UUIDs == { <<"1f", "-", ToString(i), "-", "9c">> : i \in Users }

\* The status codes the storage API answers with.
Statuses == {200, 399, 400, 401, 500}

\* The body (resp.text) the storage API sends with a status code.
Body(status) ==
    IF status < 400 THEN <<"ok">>
    ELSE IF status = 400 THEN <<"bad request">>
    ELSE IF status = 401 THEN <<"unauthorized">>
    ELSE <<"server error">>

\* Subclasses of Exception, which `except Exception` catches.
ExceptionClasses == {"ConnectionError", "UnboundLocalError", "IndexError"}

\* Exceptions a request may raise: one that derives from Exception and one
\* that derives from BaseException only (gevent's GreenletExit).
Raisable == {"ConnectionError", "GreenletExit"}

VARIABLES
    file,      \* the lines of tokens.txt (never changes)
    TOKENS,    \* the module-level list
    pc,        \* per user: "new", "pop", "run", "crashed", "stopped"
    popped,    \* per user: whether its on_start popped a token
    token,     \* per user: self.token
    volName,   \* per user: self.volName
    headers,   \* per user: self.headers, a set of <<name, value>> pairs
    taskIdx,   \* per user: index of the next task of the sequential task set
    last       \* what the most recent task invocation did

vars == <<file, TOKENS, pc, popped, token, volName, headers, taskIdx, last>>

-----------------------------------------------------------------------------
(* The requests of the two tasks *)

Get(path, hdrs, name) ==
    [method |-> "GET", path |-> path, headers |-> hdrs, json |-> {}, name |-> name]

Post(path, hdrs, payload, name) ==
    [method |-> "POST", path |-> path, headers |-> hdrs, json |-> payload, name |-> name]

\* No name= argument: the request is reported under its path.
NoName == <<>>

VolumeName == <<"/api/instances/Volume::<id>">>

\* "/api/instances/Volume::" + self.volName + "/"
VolumePath(vol) == <<"/api/instances/Volume::">> \o vol \o <<"/">>

\* "/api/instances/Volume::" + self.volName + "/action/<action>/"
VolumeActionPath(vol, action) ==
    <<"/api/instances/Volume::">> \o vol \o <<"/action/", action, "/">>

VolumeActionName(action) ==
    <<"/api/instances/Volume::<id>/action/", action, "/">>

StoragePoolPath == <<"/api/types/StoragePool/instances/">>
VolumeInstancesPath == <<"/api/types/Volume/instances/">>
QueryIdByKeyPath == <<"/api/types/Volume/instances/action/queryIdByKey/">>
SdcPath == <<"/api/instances/System::7045c4cc20dffc0f/relationships/Sdc/">>

NewVolumePayload ==
    { <<"volumeSizeInKb", <<"100">>>>, <<"storagePoolId", <<"dcc71b0500000000">>>> }

\* A payload that names no volume of the user.
QueryPayloadOtherName(vol) == { <<"name", <<"volume">>>> }

QueryPayload(vol) == { <<"name", vol>> }

AddMappedSdcPayload ==
    { <<"sdcId", <<"34e49c2000000004">>>>, <<"allowMultipleMappings", <<"TRUE">>>>,
      <<"accessMode", <<"ReadWrite">>>> }

RemoveMappedSdcPayload ==
    { <<"sdcId", <<"34e49c2000000004">>>>, <<"skipApplianceValidation", <<"TRUE">>>> }

RemoveVolumePayload == { <<"removeMode", <<"ONLY_ME">>>> }

\* The requests of create_volume, in the order of its with statements.
CreateRequests(vol, hdrs) ==
    << Get(StoragePoolPath, hdrs, NoName),
       Post(VolumeInstancesPath, hdrs, NewVolumePayload, NoName),
       Get(VolumePath(vol), hdrs, VolumeName),
       Get(StoragePoolPath, hdrs, NoName),
       Get(VolumePath(vol), hdrs, VolumeName),
       Get(StoragePoolPath, hdrs, NoName),
       Post(VolumeInstancesPath, hdrs, NewVolumePayload, NoName),
       Post(QueryIdByKeyPath, hdrs, QueryPayload(vol), NoName),
       Get(VolumePath(vol), hdrs, VolumeName),
       Get(SdcPath, hdrs, NoName),
       Post(VolumeActionPath(vol, "addMappedSdc"), hdrs, AddMappedSdcPayload,
            VolumeActionName("addMappedSdc")) >>

\* delete_volume with removeVolume sent before removeMappedSdc.
DeleteRequestsSwapped(vol, hdrs) ==
    << Get(VolumePath(vol), hdrs, VolumeName),
       Get(VolumePath(vol), hdrs, VolumeName),
       Get(SdcPath, hdrs, NoName),
       Post(VolumeActionPath(vol, "removeVolume"), hdrs, RemoveVolumePayload,
            VolumeActionName("removeVolume")),
       Get(VolumePath(vol), hdrs, VolumeName),
       Get(SdcPath, hdrs, NoName),
       Get(VolumePath(vol), hdrs, VolumeName),
       Post(VolumeActionPath(vol, "removeMappedSdc"), hdrs, RemoveMappedSdcPayload,
            VolumeActionName("removeMappedSdc")),
       Get(VolumePath(vol), hdrs, VolumeName) >>

\* The requests of delete_volume, in the order of its with statements.
DeleteRequests(vol, hdrs) ==
    << Get(VolumePath(vol), hdrs, VolumeName),
       Get(VolumePath(vol), hdrs, VolumeName),
       Get(SdcPath, hdrs, NoName),
       Post(VolumeActionPath(vol, "removeMappedSdc"), hdrs, RemoveMappedSdcPayload,
            VolumeActionName("removeMappedSdc")),
       Get(VolumePath(vol), hdrs, VolumeName),
       Get(SdcPath, hdrs, NoName),
       Get(VolumePath(vol), hdrs, VolumeName),
       Post(VolumeActionPath(vol, "removeVolume"), hdrs, RemoveVolumePayload,
            VolumeActionName("removeVolume")),
       Get(VolumePath(vol), hdrs, VolumeName) >>

-----------------------------------------------------------------------------
(* The responses *)

Answer(s) == [raises |-> "none", status_code |-> s, text |-> Body(s)]
Raise(exc) == [raises |-> exc, status_code |-> 0, text |-> <<>>]

\* What one request may come back with: an answer, or an exception.
Responses == {Answer(s) : s \in Statuses} \cup {Raise(x) : x \in Raisable}

\* What the storage API answers to the n requests of one invocation: 200 to
\* every request but the k-th, which comes back with b.
Scripts(n) ==
    { [i \in 1..n |-> IF i = k THEN b ELSE Answer(200)] : k \in 1..n, b \in Responses }

-----------------------------------------------------------------------------
(* One task invocation *)

\* The record of one invocation: the requests issued, the status codes
\* received, the responses marked failed (resp.failure), the events fired
\* with request_type "task", the exception raised inside the try block and
\* the exception that left the task.
NoInvocation ==
    [user |-> 0, task |-> "none", issued |-> <<>>, statuses |-> <<>>,
     marks |-> <<>>, events |-> <<>>, raised |-> "none", propagated |-> "none",
     afterFailedCreate |-> FALSE]

\* Whether an invocation ended with a request_failure event.
EndedInFailure(inv) ==
    \E i \in 1..Len(inv.events) : inv.events[i].event = "request_failure"

\* A new record for a task of user u; prev is the invocation recorded before it.
\* afterFailedCreate notes that prev was this user's create_volume and failed.
StartInvocation(u, task, prev) ==
    [NoInvocation EXCEPT !.user = u, !.task = task,
                         !.afterFailedCreate = /\ prev.user = u
                                               /\ prev.task = "create_volume"
                                               /\ EndedInFailure(prev)]

\* The status tests: resp.status_code >= 400 in create_volume,
\* resp.status_code > 400 in delete_volume.
CreateFails(status) == status >= 400

\* delete_volume with the test of create_volume.
DeleteFailsFrom400(status) == status >= 400

DeleteFails(status) == status > 400

StatusFails(task, status) ==
    IF task = "create_volume" THEN CreateFails(status) ELSE DeleteFails(status)

\* events.request_success.fire(request_type="task", name=<task>, ...)
SuccessEvent(task, after) ==
    [event |-> "request_success", request_type |-> "task", name |-> task,
     exception |-> "none", after |-> after]

\* events.request_failure.fire(request_type="task", name=<task>, ..., exception=e)
FailureEvent(task, exc, after) ==
    [event |-> "request_failure", request_type |-> "task", name |-> task,
     exception |-> exc, after |-> after]

\* A task that ends without its request_success event.
FireSuccessOmitted(task, inv) == inv

\* Lines 94-95 and 162-163: every request passed.
FireSuccess(task, inv) ==
    [inv EXCEPT !.events = Append(@, SuccessEvent(task, Len(inv.issued)))]

\* An except clause that swallows the exception.
ExceptHandlerSilent(task, inv, exc) == [inv EXCEPT !.raised = exc]

\* except Exception as e (lines 96-98, 164-166): an exception that derives
\* from Exception is reported and the task returns; any other leaves the task.
ExceptHandler(task, inv, exc) ==
    IF exc \in ExceptionClasses
    THEN [inv EXCEPT !.raised = exc,
                     !.events = Append(@, FailureEvent(task, exc, Len(inv.issued)))]
    ELSE [inv EXCEPT !.raised = exc, !.propagated = exc]

\* A status test that does not mark the response.
StatusFailureBranchUnmarked(task, inv, resp) ==
    ExceptHandler(task, inv, "UnboundLocalError")

\* The body of a status test (lines 26-28 and the like): resp.failure(resp.text),
\* then the arguments of events.request_failure.fire are evaluated; total_time
\* and e are locals of the function not yet assigned, so the evaluation raises
\* UnboundLocalError before the event is fired and before the return. The
\* exception leaves the with block and reaches the except clause.
StatusFailureBranch(task, inv, resp) ==
    ExceptHandler(task,
                  [inv EXCEPT !.marks = Append(@, [at |-> Len(inv.issued), text |-> resp.text])],
                  "UnboundLocalError")

\* The try block from its i-th with statement on.
RECURSIVE RunRequests(_, _, _, _, _)
RunRequests(task, reqs, responses, i, inv) ==
    IF i > Len(reqs)
    THEN FireSuccess(task, inv)
    ELSE LET sent == [inv EXCEPT !.issued = Append(@, reqs[i])]
             resp == responses[i]
         IN  IF resp.raises # "none"
             THEN ExceptHandler(task, sent, resp.raises)
             ELSE LET got == [sent EXCEPT !.statuses = Append(@, resp.status_code)]
                  IN  IF StatusFails(task, resp.status_code)
                      THEN StatusFailureBranch(task, got, resp)
                      ELSE RunRequests(task, reqs, responses, i + 1, got)

create_volume(start, vol, hdrs, responses) ==
    RunRequests("create_volume", CreateRequests(vol, hdrs), responses, 1, start)

delete_volume(start, vol, hdrs, responses) ==
    RunRequests("delete_volume", DeleteRequests(vol, hdrs), responses, 1, start)

\* The tasks in the order the class declares them.
Tasks == <<"create_volume", "delete_volume">>

\* A task set that runs the same task again.
NextTaskIndexSame(i) == i

\* SequentialTaskSet: the tasks run in order, round and round.
NextTaskIndex(i) == (i % Len(Tasks)) + 1

-----------------------------------------------------------------------------
(* on_start *)

\* A class attribute token that is not empty.
DefaultTokenNone == <<"None">>

\* The class attributes token = "", volName = "", headers = {} (lines 16-18).
DefaultToken == <<>>

DefaultVolName == <<>>
DefaultHeaders == {}

IsNotHyphen(c) == c # "-"

\* uuid.uuid4() is random and returns no value twice: the values user u may
\* draw are those no other user has drawn.
FreshUUIDs(u) ==
    { x \in UUIDs : \A v \in Users \ {u} : volName[v] # SelectSeq(x, IsNotHyphen) }

\* volNameUUID.replace('-', '')
StripHyphens(s) == SelectSeq(s, IsNotHyphen)

\* The dict of line 174, as a set of <<name, value>> pairs.
BuildHeaders(tok, vol) ==
    { <<"Authorization", <<"Bearer ">> \o tok>>,
      <<"x-csi-pv-name", vol>>,
      <<"Forwarded", <<"by=vxflexos,for=https://10.247.66.155:8000;7045c4cc20dffc0f">>>> }

\* A length test that an empty list passes.
HasTokensOrEmpty(l) == Len(l) >= 0

\* len(TOKENS) > 0
HasTokens(l) == Len(l) > 0

\* list.pop(): the value returned, and the list it leaves.
PopValue(l) == l[Len(l)]

\* A pop that reads the last token and leaves it in the list.
PopRestKeepsLast(l) == l

PopRest(l) == SubSeq(l, 1, Len(l) - 1)

Init ==
    /\ file \in TokenFiles
    /\ TOKENS = file
    /\ pc = [u \in Users |-> "new"]
    /\ popped = [u \in Users |-> FALSE]
    /\ token = [u \in Users |-> DefaultToken]
    /\ volName = [u \in Users |-> DefaultVolName]
    /\ headers = [u \in Users |-> DefaultHeaders]
    /\ taskIdx = [u \in Users |-> 1]
    /\ last = NoInvocation

\* Lines 172-174, once self.token is decided.
FinishStart(u, tok, uuid) ==
    /\ token' = [token EXCEPT ![u] = tok]
    /\ volName' = [volName EXCEPT ![u] = StripHyphens(uuid)]
    /\ headers' = [headers EXCEPT ![u] = BuildHeaders(tok, StripHyphens(uuid))]
    /\ pc' = [pc EXCEPT ![u] = "run"]

\* Lines 169-170: the length test; when it fails, on_start runs on to its end
\* (lines 172-174) with the class's token.
OnStartCheck(u) ==
    /\ pc[u] = "new"
    /\ IF HasTokens(TOKENS)
       THEN /\ pc' = [pc EXCEPT ![u] = "pop"]
            /\ UNCHANGED <<token, volName, headers>>
       ELSE \E uuid \in FreshUUIDs(u) : FinishStart(u, token[u], uuid)
    /\ UNCHANGED <<file, TOKENS, popped, taskIdx, last>>

\* Line 171, then lines 172-174. pop() of an empty list raises IndexError,
\* which leaves on_start and ends the user.
OnStartPop(u) ==
    /\ pc[u] = "pop"
    /\ IF Len(TOKENS) = 0
       THEN /\ pc' = [pc EXCEPT ![u] = "crashed"]
            /\ UNCHANGED <<TOKENS, popped, token, volName, headers>>
       ELSE /\ TOKENS' = PopRest(TOKENS)
            /\ popped' = [popped EXCEPT ![u] = TRUE]
            /\ \E uuid \in FreshUUIDs(u) : FinishStart(u, PopValue(TOKENS), uuid)
    /\ UNCHANGED <<file, taskIdx, last>>

\* on_start entered only while no other user is between its length test and
\* its pop: the users start one after the other.
OnStartCheckAlone(u) ==
    /\ \A v \in Users : pc[v] # "pop"
    /\ OnStartCheck(u)

-----------------------------------------------------------------------------
(* The tasks *)

\* The framework's bookkeeping around one invocation: the result is recorded,
\* the task cycle moves on, and an exception that left the task ends the user.
AfterTask(u, inv) ==
    /\ last' = inv
    /\ taskIdx' = [taskIdx EXCEPT ![u] = NextTaskIndex(taskIdx[u])]
    /\ pc' = [pc EXCEPT ![u] = IF inv.propagated = "none" THEN "run" ELSE "stopped"]
    /\ UNCHANGED <<file, TOKENS, popped, token, volName, headers>>

CreateVolume(u) ==
    /\ pc[u] = "run"
    /\ Tasks[taskIdx[u]] = "create_volume"
    /\ \E responses \in Scripts(Len(CreateRequests(volName[u], headers[u]))) :
           AfterTask(u, create_volume(StartInvocation(u, "create_volume", last),
                                      volName[u], headers[u], responses))

DeleteVolume(u) ==
    /\ pc[u] = "run"
    /\ Tasks[taskIdx[u]] = "delete_volume"
    /\ \E responses \in Scripts(Len(DeleteRequests(volName[u], headers[u]))) :
           AfterTask(u, delete_volume(StartInvocation(u, "delete_volume", last),
                                      volName[u], headers[u], responses))

Next ==
    \E u \in Users :
        \/ OnStartCheck(u)
        \/ OnStartPop(u)
        \/ CreateVolume(u)
        \/ DeleteVolume(u)

Spec == Init /\ [][Next]_vars

\* The start of the users alone: every interleaving of their on_start calls.
NextStart ==
    \E u \in Users :
        \/ OnStartCheck(u)
        \/ OnStartPop(u)

SpecStart == Init /\ [][NextStart]_vars

\* The start of the users one after the other: no on_start begins while
\* another is between its length test and its pop.
NextSeq ==
    \E u \in Users :
        \/ OnStartCheckAlone(u)
        \/ OnStartPop(u)

SpecSeq == Init /\ [][NextSeq]_vars

\* The same program run with one simulated user.
NextOne ==
    \/ OnStartCheck(1)
    \/ OnStartPop(1)
    \/ CreateVolume(1)
    \/ DeleteVolume(1)

SpecOne == Init /\ [][NextOne]_vars

-----------------------------------------------------------------------------
(* Properties *)

Started(u) == pc[u] \in {"run", "stopped"}

Range(q) == {q[i] : i \in 1..Len(q)}

\* The user of the recorded invocation (when there is one).
Ran == last.user # 0

\* The events of the recorded invocation with request_type "task" and the
\* task's own name.
TaskEvents ==
    { i \in 1..Len(last.events) :
        /\ last.events[i].request_type = "task"
        /\ last.events[i].name = last.task }

Successes == { i \in 1..Len(last.events) : last.events[i].event = "request_success" }
Failures == { i \in 1..Len(last.events) : last.events[i].event = "request_failure" }

\* The status test the source applies in each task, written out.
ThresholdMet(task, status) ==
    (task = "create_volume" /\ status >= 400) \/ (task = "delete_volume" /\ status > 400)

\* The order of the requests as the claim lists it: method and path.
ExpectedCreate(vol) ==
    << <<"GET", <<"/api/types/StoragePool/instances/">>>>,
       <<"POST", <<"/api/types/Volume/instances/">>>>,
       <<"GET", <<"/api/instances/Volume::">> \o vol \o <<"/">>>>,
       <<"GET", <<"/api/types/StoragePool/instances/">>>>,
       <<"GET", <<"/api/instances/Volume::">> \o vol \o <<"/">>>>,
       <<"GET", <<"/api/types/StoragePool/instances/">>>>,
       <<"POST", <<"/api/types/Volume/instances/">>>>,
       <<"POST", <<"/api/types/Volume/instances/action/queryIdByKey/">>>>,
       <<"GET", <<"/api/instances/Volume::">> \o vol \o <<"/">>>>,
       <<"GET", <<"/api/instances/System::7045c4cc20dffc0f/relationships/Sdc/">>>>,
       <<"POST", <<"/api/instances/Volume::">> \o vol \o <<"/action/", "addMappedSdc", "/">>>> >>

ExpectedDelete(vol) ==
    << <<"GET", <<"/api/instances/Volume::">> \o vol \o <<"/">>>>,
       <<"GET", <<"/api/instances/Volume::">> \o vol \o <<"/">>>>,
       <<"GET", <<"/api/instances/System::7045c4cc20dffc0f/relationships/Sdc/">>>>,
       <<"POST", <<"/api/instances/Volume::">> \o vol \o <<"/action/", "removeMappedSdc", "/">>>>,
       <<"GET", <<"/api/instances/Volume::">> \o vol \o <<"/">>>>,
       <<"GET", <<"/api/instances/System::7045c4cc20dffc0f/relationships/Sdc/">>>>,
       <<"GET", <<"/api/instances/Volume::">> \o vol \o <<"/">>>>,
       <<"POST", <<"/api/instances/Volume::">> \o vol \o <<"/action/", "removeVolume", "/">>>>,
       <<"GET", <<"/api/instances/Volume::">> \o vol \o <<"/">>>> >>

Expected(task, vol) ==
    IF task = "create_volume" THEN ExpectedCreate(vol) ELSE ExpectedDelete(vol)

\* Method and path of the requests the recorded invocation issued.
Sent == [i \in 1..Len(last.issued) |-> <<last.issued[i].method, last.issued[i].path>>]

IsPrefix(p, q) == Len(p) <= Len(q) /\ p = SubSeq(q, 1, Len(p))

\* The lines of tokens.txt are non-empty and pairwise distinct.
FileDistinctNonEmpty ==
    \A i, j \in 1..Len(file) : file[i] # <<>> /\ (i # j => file[i] # file[j])

\* C1: with the lines of the tokens file pairwise distinct and non-empty, no
\* non-empty token is held by two users, and a token a user popped is not in
\* TOKENS (it was not put back, so no later pop can hand it out), and TOKENS
\* is what is left of the file after the pops.
TokenExclusivity ==
    FileDistinctNonEmpty =>
        /\ \A u, v \in Users : (u # v /\ token[u] # <<>>) => token[u] # token[v]
        /\ \A u \in Users : popped[u] => token[u] \notin Range(TOKENS)
        /\ IsPrefix(TOKENS, file)
        /\ Len(TOKENS) + Cardinality({u \in Users : popped[u]}) = Len(file)

\* Two users hold different tokens popped from a file of distinct tokens.
TwoUsersHoldTokens ==
    /\ FileDistinctNonEmpty
    /\ \E u, v \in Users : u # v /\ popped[u] /\ popped[v] /\ token[u] # token[v]

\* C2: once a response meets the task's status threshold it is marked failed
\* with its body text, it is the last request of the invocation (no later
\* request, no second try), and the invocation ends with one request_failure
\* event and no request_success.
AbortOnFailedStatus ==
    Ran =>
        /\ \A i \in 1..Len(last.statuses) :
              ThresholdMet(last.task, last.statuses[i]) =>
                  /\ i = Len(last.issued)
                  /\ last.marks = << [at |-> i, text |-> Body(last.statuses[i])] >>
                  /\ Successes = {}
                  /\ Cardinality(Failures) = 1
                  /\ TaskEvents = Failures
                  /\ last.propagated = "none"
        /\ last.marks # <<>> =>
              ThresholdMet(last.task, last.statuses[last.marks[1].at])

\* A delete_volume stopped by a failed status at a request after the first.
StatusAbortSeen ==
    /\ Ran
    /\ last.task = "delete_volume"
    /\ last.marks # <<>>
    /\ Len(last.issued) > 1

\* What C3 asks of an invocation in which an exception was raised: nothing is
\* issued after the raising request, one request_failure event for the task
\* carries that exception, nothing leaves the task and the user stays running
\* with its next task scheduled.
RaisedIsReported ==
    /\ last.events = << FailureEvent(last.task, last.raised, Len(last.issued)) >>
    /\ TaskEvents = {1}
    /\ last.propagated = "none"
    /\ pc[last.user] = "run"
    /\ Tasks[taskIdx[last.user]] # last.task

\* C3 as stated: whatever exception a request raises, it is reported by a
\* request_failure event and does not leave the task.
AnyExceptionReported ==
    (Ran /\ last.raised \in Raisable) =>
        /\ Len(last.statuses) = Len(last.issued) - 1
        /\ RaisedIsReported

\* C3, amended: an exception that derives from Exception is reported by one
\* request_failure event with the exception attached, the remaining requests
\* are not issued and the user goes on to its next task; an exception that
\* does not derive from Exception (GreenletExit, KeyboardInterrupt, SystemExit)
\* leaves the task with no event fired.
ExceptionReported ==
    (Ran /\ last.raised \in Raisable) =>
        /\ Len(last.statuses) = Len(last.issued) - 1
        /\ last.raised \in {"ConnectionError"} => RaisedIsReported
        /\ last.raised \notin {"ConnectionError"} =>
              /\ last.events = <<>>
              /\ last.propagated = last.raised
              /\ pc[last.user] = "stopped"

\* A request after the first raised an exception, which was reported.
ExceptionSeen ==
    /\ Ran
    /\ last.raised = "ConnectionError"
    /\ Len(last.issued) > 1
    /\ Failures # {}

\* C4: the requests issued are a prefix of the task's fixed order; when every
\* response passed they are all of it (11, respectively 9); request_success
\* is fired only after the last request.
FixedRequestOrder ==
    Ran =>
        LET expected == Expected(last.task, volName[last.user])
        IN  /\ Len(ExpectedCreate(volName[last.user])) = 11
            /\ Len(ExpectedDelete(volName[last.user])) = 9
            /\ IsPrefix(Sent, expected)
            /\ (last.marks = <<>> /\ last.raised = "none") =>
                   /\ Sent = expected
                   /\ Successes = {1}
                   /\ Len(last.events) = 1
            /\ \A i \in Successes :
                   /\ last.events[i].after = Len(expected)
                   /\ Sent = expected

\* A delete_volume whose nine requests all passed.
FullDeleteSeen ==
    /\ Ran
    /\ last.task = "delete_volume"
    /\ Successes # {}
    /\ Len(last.issued) = 9

\* C5: every user runs create_volume first and then the two tasks in turn; a
\* create_volume that ended in failure issued nothing but requests of its own
\* order, and the task that user runs next is delete_volume, from its first
\* request, against the same volume name.
NoCompensation ==
    [][ /\ \A u \in Users : pc[u] \in {"new", "pop"} => Tasks[taskIdx[u]] = "create_volume"
        /\ last' # last =>
              LET u == last'.user
              IN  /\ pc[u] = "run"
                  /\ last'.task = Tasks[taskIdx[u]]
                  /\ Tasks[taskIdx'[u]] # last'.task
                  /\ (last.user = u /\ last.task = "create_volume" /\ EndedInFailure(last)) =>
                        /\ IsPrefix(Sent, ExpectedCreate(volName[u]))
                        /\ last'.task = "delete_volume"
                        /\ last'.afterFailedCreate
                        /\ last'.issued # <<>>
                        /\ last'.issued[1].method = "GET"
                        /\ last'.issued[1].path = <<"/api/instances/Volume::">> \o volName[u] \o <<"/">>
                        /\ volName'[u] = volName[u]
                  /\ last'.afterFailedCreate =>
                        (last.user = u /\ last.task = "create_volume" /\ EndedInFailure(last))
      ]_vars

\* A delete_volume that ran right after the same user's failed create_volume.
DeleteAfterFailedCreate ==
    /\ Ran
    /\ last.task = "delete_volume"
    /\ last.afterFailedCreate
    /\ Len(last.issued) > 1

RequestsCarryIdentity ==
    Ran =>
        LET u == last.user
        IN  \A i \in 1..Len(last.issued) :
                LET r == last.issued[i]
                IN  /\ r.headers = headers[u]
                    /\ <<"Authorization", <<"Bearer ">> \o token[u]>> \in r.headers
                    /\ <<"x-csi-pv-name", volName[u]>> \in r.headers
                    /\ r.path[1] = "/api/instances/Volume::" =>
                          SubSeq(r.path, 2, Len(volName[u]) + 1) = volName[u]
                    /\ r.path = <<"/api/types/Volume/instances/action/queryIdByKey/">> =>
                          r.json = { <<"name", volName[u]>> }

\* C7: token, volName and headers keep their class defaults until on_start
\* sets them, and no step changes them afterwards; every request of a user
\* carries that token and that volume name (Authorization and x-csi-pv-name
\* headers, Volume:: paths, queryIdByKey payload).
IdentityFixed ==
    [][ /\ \A u \in Users :
              /\ Started(u) =>
                    /\ token'[u] = token[u]
                    /\ volName'[u] = volName[u]
                    /\ headers'[u] = headers[u]
                    /\ volName[u] # <<>>
              /\ ~Started(u) => (token[u] = <<>> /\ volName[u] = <<>> /\ headers[u] = {})
        /\ RequestsCarryIdentity'
      ]_vars

\* A user holding a token has run create_volume and then a delete_volume that
\* a failed status stopped.
IdentityUsedAcrossTasks ==
    /\ Ran
    /\ last.task = "delete_volume"
    /\ last.marks # <<>>
    /\ token[last.user] # <<>>
    /\ Len(last.issued) > 1

\* C8: in create_volume a response fails exactly when its status is >= 400,
\* in delete_volume exactly when it is > 400: below 400 passes in both, above
\* 400 fails in both, and 400 stops create_volume but lets delete_volume go on
\* and, with nothing else failing, end with request_success.
ThresholdsDiffer ==
    Ran =>
        \A i \in 1..Len(last.statuses) :
            LET status == last.statuses[i]
                failedHere == \E j \in 1..Len(last.marks) : last.marks[j].at = i
                stopsHere == i = Len(last.issued) /\ Failures # {} /\ Successes = {}
            IN  /\ last.task = "create_volume" => (failedHere <=> status >= 400)
                /\ last.task = "delete_volume" => (failedHere <=> status > 400)
                /\ failedHere <=> stopsHere
                /\ status < 400 => ~failedHere
                /\ status > 400 => failedHere
                /\ (status = 400 /\ last.task = "delete_volume") =>
                      /\ Len(last.issued) > i \/ Successes # {}
                      /\ (last.marks = <<>> /\ last.raised = "none") =>
                            (Successes = {1} /\ Len(last.issued) = 9)

\* A delete_volume that received a 400 and ended with request_success.
Delete400Passes ==
    /\ Ran
    /\ last.task = "delete_volume"
    /\ 400 \in Range(last.statuses)
    /\ Successes # {}

\* C9 as stated: every invocation fires exactly one event with request_type
\* "task" and its own name, a request_success or a request_failure.
OneTaskEventAlways ==
    Ran =>
        /\ Len(last.events) = 1
        /\ TaskEvents = {1}
        /\ last.events[1].event \in {"request_success", "request_failure"}

\* C9, amended: every invocation that returns fires exactly one such event,
\* the invocations stopped by a failed status included (their one event is
\* the except clause's, carrying the UnboundLocalError); an invocation left by
\* an exception that does not derive from Exception fires none.
OneTaskEvent ==
    Ran =>
        /\ last.propagated = "none" =>
              /\ Len(last.events) = 1
              /\ TaskEvents = {1}
              /\ last.events[1].event \in {"request_success", "request_failure"}
        /\ last.marks # <<>> =>
              /\ last.propagated = "none"
              /\ last.events = << FailureEvent(last.task, "UnboundLocalError", Len(last.issued)) >>
        /\ last.propagated # "none" =>
              /\ last.events = <<>>
              /\ last.propagated \notin {"ConnectionError", "UnboundLocalError"}

\* An invocation stopped by a failed status has fired its one event.
StatusFailureEventSeen ==
    /\ Ran
    /\ last.marks # <<>>
    /\ Len(last.events) = 1

\* C10: with the users started one after the other, no on_start fails; a user
\* that started without popping found TOKENS empty, keeps the empty token,
\* has a generated volume name and the Authorization value "Bearer " alone,
\* and its first task can run; once all users have started on a file of fewer
\* lines than users, exactly as many users as lines have popped a token, the
\* others share the empty token, and TOKENS is empty.
ExhaustedPoolStart ==
    /\ \A u \in Users : pc[u] # "crashed"
    /\ \A u \in Users :
          (Started(u) /\ ~popped[u]) =>
              /\ TOKENS = <<>>
              /\ token[u] = <<>>
              /\ volName[u] \in {SelectSeq(x, IsNotHyphen) : x \in UUIDs}
              /\ headers[u] = { <<"Authorization", <<"Bearer ">>>>,
                                <<"x-csi-pv-name", volName[u]>>,
                                <<"Forwarded", <<"by=vxflexos,for=https://10.247.66.155:8000;7045c4cc20dffc0f">>>> }
              /\ ENABLED CreateVolume(u)
    /\ ((\A u \in Users : Started(u)) /\ Len(file) < NUsers) =>
          /\ Cardinality({u \in Users : popped[u]}) = Len(file)
          /\ TOKENS = <<>>
          /\ \A u \in Users : ~popped[u] => token[u] = <<>>

\* All users have started on a file with tokens but fewer than users: some
\* hold a token, the others started on the empty list.
MoreUsersThanTokens ==
    /\ \A u \in Users : Started(u)
    /\ Len(file) > 0
    /\ Len(file) < NUsers
    /\ \E u, v \in Users : popped[u] /\ ~popped[v]

====
